---- MODULE Spec2Model ----
(***************************************************************************)
(* Model of the ResuMatch backend (src/main.py): the key-check endpoint,   *)
(* the resume-parsing endpoint, the tailoring endpoint and the rate gate   *)
(* that decorates it.  Strings are sequences of one-character strings;     *)
(* long texts are run-length encoded (a sequence of runs [ch, n]).         *)
(***************************************************************************)
EXTENDS Integers, Sequences, FiniteSets, TLC

VARIABLES
    env,        \* value of OPENAI_API_KEY in the process environment
    file,       \* the UploadFile handed to parse_resume
    lib,        \* what the document-parsing library yields for file.content
    storage,    \* the limiter's per-client window counters
    op,         \* the endpoint that produced resp
    who,        \* the client (remote address) of the last request
    callLog,    \* completion-service replies consumed by the last tailoring call
    invoked,    \* extraction routines run by the last parse_resume call
    extracted,  \* text produced by the extractor in the last parse_resume call
    resp        \* the HTTP response of the last request

vars == <<env, file, lib, storage, op, who, callLog, invoked, extracted, resp>>

\* ------------------------------------------------------------------ bounds
MaxKeyLen == 11
MaxRuns == 2
MaxSections == 3
MaxBullets == 2
MaxOver == 2
TickSecs == 30

\* --------------------------------------------------------- program constants
PrefixLen == 10
TextCap == 200000
Limit == 20
WindowSecs == 60

\* ------------------------------------------------------------------ helpers
Min(a, b) == IF a < b THEN a ELSE b

SeqsUpTo(S, n) == UNION {[1..k -> S] : k \in 0..n}

\* Python s[:n] on a sequence
Slice(s, n) == SubSeq(s, 1, Min(n, Len(s)))

\* Python s.endswith(suf)
endswith(s, suf) ==
    /\ Len(s) >= Len(suf)
    /\ SubSeq(s, Len(s) - Len(suf) + 1, Len(s)) = suf

LowerChar(ch) ==
    CASE ch = "D" -> "d"
      [] ch = "O" -> "o"
      [] ch = "C" -> "c"
      [] ch = "X" -> "x"
      [] ch = "P" -> "p"
      [] ch = "F" -> "f"
      [] ch = "T" -> "t"
      [] ch = "V" -> "v"
      [] OTHER -> ch

\* variant of lower: the name is compared as uploaded
lower_identity(s) == s

\* Python s.lower()
lower(s) == [i \in DOMAIN s |-> LowerChar(s[i])]

Clients == {"10.0.0.1", "10.0.0.2"}

NoResp == [status |-> 0]

\* ------------------------------------------------------- GET / and /check-key
KeyChars == {"s", "k"}
Absent == [set |-> FALSE, value |-> <<>>]
Envs == {Absent} \cup {[set |-> TRUE, value |-> k] : k \in SeqsUpTo(KeyChars, MaxKeyLen)}

\* os.environ.get("OPENAI_API_KEY", "")
environ_get(e) == IF e.set THEN e.value ELSE <<>>

Ellipsis == <<".", ".", ".">>

health == [status |-> "ok", message |-> "ResuMatch backend is running"]

check_key(e) ==
    LET key == environ_get(e) IN
    IF key = <<>>
    THEN [status |-> "missing", message |-> "OPENAI_API_KEY not found"]
    ELSE [status |-> "ok", key_starts_with |-> Slice(key, PrefixLen) \o Ellipsis]

\* ------------------------------------------------------ POST /api/parse-resume
TextChars == {"a", "b"}
\* "xFF" stands for a byte that is not valid UTF-8
Bytes == {"a", "xFF"}
RunLens == {1, TextCap - 1, TextCap + 1}

\* run-length encoded strings: adjacent runs carry different characters
RleSeqs(C) ==
    {s \in SeqsUpTo([ch : C, n : RunLens], MaxRuns) :
        \A i \in 1..(Len(s) - 1) : s[i].ch # s[i + 1].ch}

Texts == RleSeqs(TextChars)
Contents == RleSeqs(Bytes)

RECURSIVE RLen(_)
RLen(t) == IF t = <<>> THEN 0 ELSE Head(t).n + RLen(Tail(t))

\* Python text[:k] on a run-length encoded string
RECURSIVE TakeRle(_, _)
TakeRle(t, k) ==
    IF t = <<>> \/ k <= 0 THEN <<>>
    ELSE IF Head(t).n >= k THEN <<[ch |-> Head(t).ch, n |-> k]>>
    ELSE <<Head(t)>> \o TakeRle(Tail(t), k - Head(t).n)

\* content.decode("utf-8", errors="ignore"): undecodable bytes are dropped
RECURSIVE decode(_)
decode(c) ==
    IF c = <<>> THEN <<>>
    ELSE LET h == Head(c)
             r == decode(Tail(c))
         IN IF h.ch = "xFF" THEN r
            ELSE IF r # <<>> /\ Head(r).ch = h.ch
                 THEN <<[ch |-> h.ch, n |-> h.n + Head(r).n]>> \o Tail(r)
                 ELSE <<h>> \o r

DOCX == <<".", "d", "o", "c", "x">>
PDF == <<".", "p", "d", "f">>
TXT == <<".", "t", "x", "t">>

Stems == {<<>>, <<"c", "v">>, <<"C", "V", ".", "t", "x", "t">>}
Exts == {
    <<>>,
    DOCX, <<".", "D", "O", "C", "X">>, <<".", "D", "o", "c", "X">>,
    PDF, <<".", "P", "D", "F">>, <<".", "p", "d", "F">>,
    TXT, <<".", "T", "X", "T">>, <<".", "T", "x", "t">>,
    <<".", "r", "t", "f">>, <<".", "d", "o", "c">>, <<"d", "o", "c", "x">>,
    <<".", "p", "d", "f", "x">>, <<".", "p", "d", "f", ".", "r", "t", "f">>,
    <<".", "t", "x", "t", " ">>
}

Uploads ==
    {[hasName |-> FALSE, filename |-> <<>>, content |-> c] : c \in Contents}
    \cup {[hasName |-> TRUE, filename |-> s \o e, content |-> c] :
            s \in Stems, e \in Exts, c \in Contents}

\* outcome of the document-parsing library on the uploaded bytes
LibOuts == {[raised |-> TRUE, text |-> <<>>]} \cup {[raised |-> FALSE, text |-> t] : t \in Texts}

\* the if/elif chain of parse_resume: which extraction routine the name selects
Dispatch(name) ==
    IF endswith(name, DOCX) THEN "_docx_to_text"
    ELSE IF endswith(name, PDF) THEN "_pdf_to_text"
    ELSE IF endswith(name, TXT) THEN "decode"
    ELSE "unsupported"

\* variant of CapText: the extracted text is returned whole
CapText_uncapped(text) == text

\* return {"text": text[:200000]}
CapText(text) == TakeRle(text, TextCap)

parse_resume(f, l) ==
    LET name == lower(IF f.hasName THEN f.filename ELSE <<>>)
        routine == Dispatch(name)
    IN  IF routine = "unsupported"
        THEN [resp |-> [status |-> 400,
                        detail |-> "Unsupported file type. Please upload PDF, DOCX, or TXT."],
              invoked |-> {}, extracted |-> <<>>]
        ELSE IF routine # "decode" /\ l.raised
        THEN [resp |-> [status |-> 500], invoked |-> {routine}, extracted |-> <<>>]
        ELSE LET text == IF routine = "decode" THEN decode(f.content) ELSE l.text IN
             [resp |-> [status |-> 200, text |-> CapText(text)],
              invoked |-> {routine}, extracted |-> text]

\* ------------------------------------------------------------ rate gate
\* limiter.limit("20/minute") keyed by get_remote_address: a fixed window per
\* client that opens at the client's first counted request and lasts
\* WindowSecs; every request to the decorated route counts, admitted or not.
EmptyWindow == [count |-> 0, ttl |-> 0]

\* variant of Hit: the quota test is made on the count before the request
Hit_admit_one_more(st, c) ==
    LET cur == IF st[c].ttl = 0 THEN 0 ELSE st[c].count
        new == cur + 1
        ttl == IF new = 1 THEN WindowSecs ELSE st[c].ttl
    IN  [storage |-> [st EXCEPT ![c] = [count |-> new, ttl |-> ttl]],
         allowed |-> cur <= Limit]

\* variant of Hit: one counter shared by all clients
Hit_shared(st, c) ==
    LET cur == IF st[c].ttl = 0 THEN 0 ELSE st[c].count
        new == cur + 1
        ttl == IF new = 1 THEN WindowSecs ELSE st[c].ttl
    IN  [storage |-> [d \in Clients |-> [count |-> new, ttl |-> ttl]],
         allowed |-> new <= Limit]

Hit(st, c) ==
    LET cur == IF st[c].ttl = 0 THEN 0 ELSE st[c].count
        new == cur + 1
        ttl == IF new = 1 THEN WindowSecs ELSE st[c].ttl
    IN  [storage |-> [st EXCEPT ![c] = [count |-> new, ttl |-> ttl]],
         allowed |-> new <= Limit]

\* TickSecs seconds pass; a window whose time is up is dropped
Elapse(st) ==
    [c \in Clients |->
        IF st[c].ttl <= TickSecs THEN EmptyWindow
        ELSE [count |-> st[c].count, ttl |-> st[c].ttl - TickSecs]]

RateLimited == [status |-> 429, detail |-> "Rate limit exceeded: 20 per 1 minute"]

\* ------------------------------------------------------------ POST /api/tailor
\* JSON values
VNull == [type |-> "null"]
VStr == [type |-> "str"]
VList(items) == [type |-> "list", items |-> items]
VObject(map) == [type |-> "object", map |-> map]

StrFields == {"summary", "improved_resume", "cover_letter"}
Fields == StrFields \cup {"sections"}

Bullets(n) == VList([i \in 1..n |-> VStr])
Section(n) == [heading |-> VStr, bullets |-> Bullets(n)]

\* k sections, the first with b bullets, the others with MaxBullets
SectionLists ==
    {VList([i \in 1..k |-> Section(IF i = 1 THEN b ELSE MaxBullets)]) :
        k \in 0..MaxSections, b \in 0..MaxBullets}

GoodSections == VList([i \in 1..MaxSections |-> Section(MaxBullets)])
GoodData == [f \in Fields |-> IF f = "sections" THEN GoodSections ELSE VStr]

Restrict(d, S) == [k \in S |-> d[k]]

\* the JSON objects the completion service may send back
DataSet ==
    {[GoodData EXCEPT !["sections"] = s] : s \in SectionLists}
    \cup {[GoodData EXCEPT ![f] = VNull] : f \in Fields}
    \cup {Restrict(GoodData, Fields \ {f}) : f \in Fields}
    \cup {[GoodData EXCEPT !["sections"] = VList(<<[bullets |-> Bullets(MaxBullets)]>>)]}
    \cup {[GoodData EXCEPT !["sections"] = VList(<<[heading |-> VStr, bullets |-> VStr]>>)]}
    \cup {[k \in Fields \cup {"notes"} |-> IF k = "notes" THEN VStr ELSE GoodData[k]]}

\* JSON text as a token sequence
LBrace == [t |-> "{"]
RBrace == [t |-> "}"]
LBracket == [t |-> "["]
RBracket == [t |-> "]"]
KeyTok(k) == [t |-> "key", k |-> k]
ValTok(v) == [t |-> "val", v |-> v]

KeyOrder == <<"summary", "improved_resume", "cover_letter", "sections", "notes">>

RECURSIVE EncodeFrom(_, _)
EncodeFrom(d, i) ==
    IF i > Len(KeyOrder) THEN <<>>
    ELSE (IF KeyOrder[i] \in DOMAIN d
          THEN <<KeyTok(KeyOrder[i]), ValTok(d[KeyOrder[i]])>>
          ELSE <<>>) \o EncodeFrom(d, i + 1)

Encode(d) == <<LBrace>> \o EncodeFrom(d, 1) \o <<RBrace>>

Exc(type, msg) == [type |-> type, msg |-> msg]

NoneContent == [isNone |-> TRUE, text |-> <<>>]
TextContent(toks) == [isNone |-> FALSE, text |-> toks]

\* what one client.chat.completions.create call may produce
Replies ==
    {[kind |-> "raise", exc |-> Exc("APIConnectionError", "Connection error.")],
     [kind |-> "raise", exc |-> Exc("AuthenticationError", "Incorrect API key provided")],
     [kind |-> "message", content |-> NoneContent],
     [kind |-> "message", content |-> TextContent(<<>>)],
     [kind |-> "message", content |-> TextContent(<<LBracket, RBracket>>)],
     [kind |-> "message", content |-> TextContent(SubSeq(Encode(GoodData), 1, 4))],
     [kind |-> "message", content |-> TextContent(SubSeq(Encode(GoodData), 1, 8))],
     [kind |-> "message", content |-> TextContent(Tail(Encode(GoodData)))]}
    \cup {[kind |-> "message", content |-> TextContent(Encode(d))] : d \in DataSet}

\* the replies used where the rate gate, not the handler, is under study
GateReplies ==
    {r \in Replies : r.kind = "raise"}
    \cup {[kind |-> "message", content |-> TextContent(Encode(GoodData))]}

SetMax(S) == CHOOSE i \in S : \A j \in S : j <= i

\* json.loads(content)
json_loads(content) ==
    IF content.isNone
    THEN [ok |-> FALSE,
          exc |-> Exc("TypeError", "the JSON object must be str, bytes or bytearray, not NoneType")]
    ELSE LET toks == content.text
             n == Len(toks)
             mid == SubSeq(toks, 2, n - 1)
             wellFormed ==
                 /\ n >= 2
                 /\ toks[1] = LBrace
                 /\ toks[n] = RBrace
                 /\ Len(mid) % 2 = 0
                 /\ \A i \in 1..Len(mid) :
                        mid[i].t = (IF i % 2 = 1 THEN "key" ELSE "val")
             keys == {mid[i].k : i \in {j \in 1..Len(mid) : j % 2 = 1}}
         IN  IF toks = <<LBracket, RBracket>>
             THEN [ok |-> TRUE, value |-> VList(<<>>)]
             ELSE IF wellFormed
             THEN [ok |-> TRUE,
                   value |-> VObject([k \in keys |->
                       mid[SetMax({i \in 1..Len(mid) : i % 2 = 1 /\ mid[i].k = k}) + 1].v])]
             ELSE [ok |-> FALSE, exc |-> Exc("JSONDecodeError", "Expecting value")]

\* TailoredSection: heading: str, bullets: List[str]
SectionOk(s) ==
    /\ "heading" \in DOMAIN s
    /\ s.heading.type = "str"
    /\ "bullets" \in DOMAIN s
    /\ s.bullets.type = "list"
    /\ \A i \in DOMAIN s.bullets.items : s.bullets.items[i].type = "str"

\* variant of Validate: absent or null fields are tolerated
Validate_partial(data) ==
    IF data.type # "object"
    THEN [ok |-> FALSE, exc |-> Exc("TypeError", "argument after ** must be a mapping")]
    ELSE [ok |-> TRUE, model |-> Restrict(data.map, Fields \cap DOMAIN data.map)]

\* TailorResponse(**data)
Validate(data) ==
    IF data.type # "object"
    THEN [ok |-> FALSE, exc |-> Exc("TypeError", "argument after ** must be a mapping")]
    ELSE LET m == data.map IN
         IF /\ Fields \subseteq DOMAIN m
            /\ \A f \in StrFields : m[f].type = "str"
            /\ m["sections"].type = "list"
            /\ \A i \in DOMAIN m["sections"].items : SectionOk(m["sections"].items[i])
         THEN [ok |-> TRUE, model |-> Restrict(m, Fields)]
         ELSE [ok |-> FALSE, exc |-> Exc("ValidationError", "validation errors for TailorResponse")]

\* HTTPException(500, f"AI error: {type(e).__name__}: {e}")
AIError(e) == [status |-> 500, detail |-> <<"AI error: ", e.type, ": ", e.msg>>]

\* the outcome of one completion call followed by json.loads and validation
Attempt(reply) ==
    IF reply.kind = "raise" THEN [ok |-> FALSE, exc |-> reply.exc]
    ELSE LET data == json_loads(reply.content) IN
         IF ~data.ok THEN data ELSE Validate(data.value)

\* variant of tailor_resume: a failed call is followed by a second call
tailor_resume_fallback(reply) ==
    LET outcome == Attempt(reply) IN
    [resp |-> IF outcome.ok THEN [status |-> 200, body |-> outcome.model]
              ELSE AIError(outcome.exc),
     calls |-> IF outcome.ok THEN <<reply>> ELSE <<reply, reply>>]

\* variant of tailor_resume: the completion call is always issued twice
tailor_resume_twice(reply) ==
    LET outcome == Attempt(reply) IN
    [resp |-> IF outcome.ok THEN [status |-> 200, body |-> outcome.model]
              ELSE AIError(outcome.exc),
     calls |-> <<reply, reply>>]

\* the body of tailor_resume for one reply of the completion service
tailor_resume(reply) ==
    LET outcome == Attempt(reply)
    IN  [resp |-> IF outcome.ok THEN [status |-> 200, body |-> outcome.model]
                  ELSE AIError(outcome.exc),
         calls |-> <<reply>>]

\* ------------------------------------------------------------------ actions
Health(c) ==
    /\ op' = "health"
    /\ who' = c
    /\ resp' = [status |-> 200, body |-> health]
    /\ callLog' = <<>>
    /\ UNCHANGED <<env, file, lib, storage, invoked, extracted>>

CheckKey(c) ==
    /\ op' = "check_key"
    /\ who' = c
    /\ resp' = [status |-> 200, body |-> check_key(env)]
    /\ callLog' = <<>>
    /\ UNCHANGED <<env, file, lib, storage, invoked, extracted>>

ParseResume(c) ==
    LET r == parse_resume(file, lib) IN
    /\ op' = "parse_resume"
    /\ who' = c
    /\ resp' = r.resp
    /\ invoked' = r.invoked
    /\ extracted' = r.extracted
    /\ callLog' = <<>>
    /\ UNCHANGED <<env, file, lib, storage>>

\* the limiter's wrapper around tailor_resume: count the request, then either
\* reject it or run the handler
Tailor(c, reply) ==
    LET h == Hit(storage, c) IN
    /\ storage[c].count < Limit + MaxOver
    /\ op' = "tailor"
    /\ who' = c
    /\ storage' = h.storage
    /\ IF h.allowed
       THEN LET r == tailor_resume(reply) IN resp' = r.resp /\ callLog' = r.calls
       ELSE resp' = RateLimited /\ callLog' = <<>>
    /\ UNCHANGED <<env, file, lib, invoked, extracted>>

Tick ==
    /\ storage' = Elapse(storage)
    /\ UNCHANGED <<env, file, lib, op, who, callLog, invoked, extracted, resp>>

\* ----------------------------------------------------------- specifications
Idle ==
    /\ storage = [c \in Clients |-> EmptyWindow]
    /\ op = "none"
    /\ who = "none"
    /\ callLog = <<>>
    /\ invoked = {}
    /\ extracted = <<>>
    /\ resp = NoResp

NoFile == [hasName |-> FALSE, filename |-> <<>>, content |-> <<>>]
NoLib == [raised |-> FALSE, text |-> <<>>]

Init ==
    /\ env = Absent
    /\ file = NoFile
    /\ lib = NoLib
    /\ Idle

Next ==
    \/ \E c \in Clients : Health(c)
    \/ \E c \in Clients : CheckKey(c)
    \/ \E c \in Clients : ParseResume(c)
    \/ \E c \in Clients, reply \in GateReplies : Tailor(c, reply)
    \/ Tick

Spec == Init /\ [][Next]_vars

\* the tailoring handler against every reply of the completion service
NextTailor == \E c \in Clients, reply \in Replies : Tailor(c, reply)

SpecTailor == Init /\ [][NextTailor]_vars

InitKey ==
    /\ env \in Envs
    /\ file = NoFile
    /\ lib = NoLib
    /\ Idle

NextKey == \E c \in Clients : CheckKey(c)

SpecKey == InitKey /\ [][NextKey]_vars

InitParse ==
    /\ env = Absent
    /\ file \in Uploads
    /\ lib \in LibOuts
    /\ Idle

NextParse == \E c \in Clients : ParseResume(c)

SpecParse == InitParse /\ [][NextParse]_vars

\* ------------------------------------------------------------------ claims
\* a reply from which a TailorResponse can be built: the JSON text of an
\* object carrying the four fields with the declared types
ShapeValid(d) ==
    /\ Fields \subseteq DOMAIN d
    /\ \A f \in StrFields : d[f] = VStr
    /\ d["sections"].type = "list"
    /\ \A i \in DOMAIN d["sections"].items :
          d["sections"].items[i] \in
              {[heading |-> VStr, bullets |-> Bullets(n)] : n \in 0..(MaxBullets + 1)}

Succeeds(reply) ==
    \E d \in DataSet :
        /\ ShapeValid(d)
        /\ reply = [kind |-> "message", content |-> TextContent(Encode(d))]

Handled == op = "tailor" /\ resp.status # 429

C2_MinimumCardinality ==
    (op = "tailor" /\ resp.status = 200) =>
        /\ DOMAIN resp.body = Fields
        /\ \A f \in Fields : resp.body[f] # VNull
        /\ Len(resp.body["sections"].items) >= 3
        /\ \A i \in DOMAIN resp.body["sections"].items :
              Len(resp.body["sections"].items[i].bullets.items) >= 2

\* a tailoring request by client c has just been counted
TailorStep(c) ==
    /\ op' = "tailor"
    /\ who' = c
    /\ storage'[c].count > storage[c].count

\* C3: within one window the first 20 tailoring requests of a client reach
\* the handler, the 21st and later ones get 429 and cause no completion call.
C3_QuotaPerWindow ==
    [][\A c \in Clients : TailorStep(c) =>
          IF storage[c].count < Limit
          THEN resp'.status # 429 /\ Len(callLog') >= 1
          ELSE resp'.status = 429 /\ callLog' = <<>>]_vars

C3_Witness ==
    /\ op = "tailor"
    /\ resp.status = 429
    /\ storage[who].count = Limit + 1
    /\ callLog = <<>>

\* C4: a handled tailoring request ends either in a response of the full
\* TailorResponse shape or in HTTP 500 with detail "AI error: <type>: <msg>";
\* a reply that is not JSON or lacks a required key is never a success.
C4_AllOrNothing ==
    Handled =>
        /\ \/ /\ resp.status = 200
              /\ DOMAIN resp = {"status", "body"}
              /\ ShapeValid(resp.body)
              /\ DOMAIN resp.body = Fields
           \/ /\ resp.status = 500
              /\ DOMAIN resp = {"status", "detail"}
              /\ Len(resp.detail) = 4
              /\ resp.detail[1] = "AI error: "
              /\ resp.detail[3] = ": "
              /\ callLog[1].kind = "raise" =>
                    /\ resp.detail[2] = callLog[1].exc.type
                    /\ resp.detail[4] = callLog[1].exc.msg
              /\ callLog[1].kind # "raise" =>
                    resp.detail[2] \in {"JSONDecodeError", "TypeError", "ValidationError"}
        /\ (~\E d \in DataSet : /\ Fields \subseteq DOMAIN d
                                /\ callLog[1] = [kind |-> "message",
                                                 content |-> TextContent(Encode(d))])
              => resp.status = 500

C4_Witness ==
    /\ op = "tailor"
    /\ resp.status = 500
    /\ resp.detail[2] = "ValidationError"
    /\ callLog[1] = [kind |-> "message",
                     content |-> TextContent(Encode(Restrict(GoodData, Fields \ {"summary"})))]

\* C5: check_key shows only a proper prefix of fixed length of a non-empty
\* key, and nothing of the key when it is absent or empty.
C5_NeverFullSecret ==
    op = "check_key" =>
        LET key == environ_get(env)
            body == resp.body
        IN  IF key = <<>>
            THEN body.status = "missing" /\ "key_starts_with" \notin DOMAIN body
            ELSE /\ body.status = "ok"
                 /\ LET shown == SubSeq(body.key_starts_with, 1,
                                        Len(body.key_starts_with) - 3)
                    IN  /\ body.key_starts_with = shown \o Ellipsis
                        /\ Len(shown) = PrefixLen
                        /\ Len(shown) < Len(key)
                        /\ shown = SubSeq(key, 1, Len(shown))

Ungated == {"health", "check_key", "parse_resume"}

\* a request to an endpoint without a limit has just been answered
UngatedStep ==
    /\ op' \in Ungated
    /\ <<op, who, resp, invoked, extracted>>' # <<op, who, resp, invoked, extracted>>

\* C7: requests to the other endpoints are never answered 429 and leave every
\* counter alone; a tailoring request touches only its own client's counter
\* and is admitted whenever that client is under its quota.
C7_QuotaScope ==
    [][/\ UngatedStep => (storage' = storage /\ resp'.status # 429)
       /\ \A c \in Clients : TailorStep(c) =>
             /\ \A d \in Clients \ {c} : storage'[d] = storage[d]
             /\ storage[c].count < Limit => resp'.status # 429]_vars

C7_Witness ==
    /\ op = "tailor"
    /\ resp.status # 429
    /\ \E d \in Clients \ {who} : storage[d].count > Limit

UpperChar(ch) ==
    CASE ch = "d" -> "D"
      [] ch = "o" -> "O"
      [] ch = "c" -> "C"
      [] ch = "x" -> "X"
      [] ch = "p" -> "P"
      [] ch = "f" -> "F"
      [] ch = "t" -> "T"
      [] OTHER -> ch

\* name ends in ext when letter case is disregarded
EndsWithCI(name, ext) ==
    /\ Len(name) >= Len(ext)
    /\ \A i \in 1..Len(ext) :
          name[Len(name) - Len(ext) + i] \in {ext[i], UpperChar(ext[i])}

RoutineOf(ext) ==
    CASE ext = DOCX -> "_docx_to_text"
      [] ext = PDF -> "_pdf_to_text"
      [] ext = TXT -> "decode"

\* C8: a name ending (case-insensitively) in none of .docx, .pdf, .txt gets
\* HTTP 400 and no extraction routine runs; otherwise exactly the matching
\* routine runs and the answer is not 400.
C8_DispatchByExtension ==
    op = "parse_resume" =>
        LET name == IF file.hasName THEN file.filename ELSE <<>>
            matches == {e \in {DOCX, PDF, TXT} : EndsWithCI(name, e)}
        IN  IF matches = {}
            THEN resp.status = 400 /\ invoked = {}
            ELSE /\ Cardinality(matches) = 1
                 /\ \A e \in matches : invoked = {RoutineOf(e)}
                 /\ resp.status # 400

C8_Witness ==
    /\ op = "parse_resume"
    /\ file.hasName
    /\ file.filename = <<"c", "v", ".", "D", "o", "c", "X">>
    /\ invoked = {"_docx_to_text"}
    /\ resp.status = 200

\* C9: a handled tailoring request makes one or two completion calls, and a
\* second one only after the first failed.
C9_OneOrTwoCalls ==
    Handled => /\ Len(callLog) \in 1..2
               /\ Len(callLog) = 2 => ~Succeeds(callLog[1])

C9_Witness ==
    /\ op = "tailor"
    /\ resp.status = 200
    /\ Len(callLog) = 1

\* p is a prefix of t (both run-length encoded)
IsPrefixRle(p, t) ==
    /\ Len(p) <= Len(t)
    /\ \A i \in 1..Len(p) :
          /\ p[i].ch = t[i].ch
          /\ p[i].n > 0
          /\ IF i < Len(p) THEN p[i].n = t[i].n ELSE p[i].n <= t[i].n

\* C10: the text returned by parse_resume is the first min(n, 200000)
\* characters of the n characters the extractor produced.
C10_TextCapped ==
    (op = "parse_resume" /\ resp.status = 200) =>
        /\ IsPrefixRle(resp.text, extracted)
        /\ RLen(resp.text) = Min(RLen(extracted), TextCap)
        /\ RLen(resp.text) <= TextCap

C10_Witness ==
    /\ op = "parse_resume"
    /\ resp.status = 200
    /\ RLen(extracted) > TextCap
    /\ RLen(resp.text) = TextCap

====
